---- MODULE Spec2Model ----
(***************************************************************************)
(* A model of the locutus core: the tier algebra and the token allocation  *)
(* record of modules/antiflood-tokens/interfaces/src/lib.rs.               *)
(*                                                                         *)
(* Five specifications share the module's variables:                       *)
(*   SpecTier    the pure functions of Tier, applied to bounded inputs;    *)
(*   SpecRecord  a TokenAllocationRecord under new / insert /              *)
(*               get_mut_tier / summarize / delta / assignment_exists;     *)
(*   SpecRuntime a Runtime of crates/locutus-runtime/src/runtime.rs under  *)
(*               validate_state / update_state / update_state_from_summary *)
(*               while the ContractStore gains and loses contracts;        *)
(*   SpecGateway the HttpGateways of crates/http-gw/src/client_proxy.rs    *)
(*               under recv / send, with their HTTP callers;               *)
(*   SpecAssignment  AllocationCriteria::new and the functions of a        *)
(*               TokenAssignment: to_be_signed, next_slot, previous_slot.  *)
(* Each specification leaves the others' variables at their idle values.   *)
(***************************************************************************)
EXTENDS Integers, Sequences, FiniteSets, TLC

VARIABLES
    \* ---- tier algebra (SpecTier)
    tier,           \* the Tier the call is made on (self)
    time,           \* the DateTime<Utc> argument
    pc,             \* "input", or the name of the function that was applied
    valid,          \* result of is_valid_slot
    normalized,     \* result of normalize_to_next: [ok, time]; ok = FALSE is a panic
    \* ---- allocation record (SpecRecord)
    tokens_by_tier, \* TokenAllocationRecord.tokens_by_tier: Tier -> Seq(TokenAssignment)
    summary,        \* the last TokenAllocationSummary taken: Tier -> Seq(timestamp)
    last_op,        \* name of the last record operation
    delta_out,      \* result of the last delta(summary): a record's tokens_by_tier
    probe,          \* the assignment last passed to assignment_exists
    exists_out,     \* result of the last assignment_exists(probe)
    edited,         \* whether a list was edited through get_mut_tier (history)
    \* ---- contract runtime (SpecRuntime)
    contracts,      \* Runtime.contracts: the keys whose bytecode the ContractStore holds
    modules,        \* Runtime.modules: the keys that have a compiled Module
    host_memory,    \* Runtime.host_memory: [some, pages], an Option<Memory>
    fetched,        \* keys whose bytecode was fetched and compiled (history)
    rt_call,        \* the last call: its inputs and what happened inside it
    rt_result,      \* what the last call returned
    \* ---- HTTP gateways (SpecGateway)
    ID,                 \* the static AtomicUsize ID, shared by all gateways
    server_request,     \* per gateway: the queue of (request, reply sender) pairs
    senders,            \* per gateway: whether the filter's request_sender is alive
    pending_responses,  \* per gateway: ClientId -> reply channel
    gw_pc,              \* per gateway: where its task is, and what recv holds
    channels,           \* the oneshot channels made by handle_contract, in order
    recv_log,           \* the fetch_add and return events of recv, in order (history)
    sent_to,            \* the (gateway, client) pairs send was called with (history)
    gw_last,            \* the last recv or send that ended, and how
    \* ---- allocation criteria and token assignment (SpecAssignment)
    assignment,     \* a TokenAssignment: [tier, time_slot, assignee]
    frequency,      \* the Tier passed to AllocationCriteria::new
    max_age,        \* the std::time::Duration passed to AllocationCriteria::new
    contract,       \* the ContractInstanceId passed to AllocationCriteria::new
    asg_pc,         \* "input", or the name of the function that was applied
    criteria,       \* result of AllocationCriteria::new
    signed_msg,     \* result of to_be_signed: a sequence of bytes
    slot_trace      \* the next_slot / previous_slot calls made, in order

tierVars == <<tier, time, pc, valid, normalized>>
recordVars == <<tokens_by_tier, summary, last_op, delta_out, probe, exists_out, edited>>
runtimeVars == <<contracts, modules, host_memory, fetched, rt_call, rt_result>>
gatewayVars == <<ID, server_request, senders, pending_responses, gw_pc, channels,
                 recv_log, sent_to, gw_last>>
assignmentVars == <<assignment, frequency, max_age, contract, asg_pc, criteria,
                    signed_msg, slot_trace>>
vars == <<tier, time, pc, valid, normalized,
          tokens_by_tier, summary, last_op, delta_out, probe, exists_out, edited,
          contracts, modules, host_memory, fetched, rt_call, rt_result,
          ID, server_request, senders, pending_responses, gw_pc, channels,
          recv_log, sent_to, gw_last,
          assignment, frequency, max_age, contract, asg_pc, criteria, signed_msg,
          slot_trace>>
nonTierVars == <<recordVars, runtimeVars, gatewayVars, assignmentVars>>
nonRecordVars == <<tierVars, runtimeVars, gatewayVars, assignmentVars>>
nonRuntimeVars == <<tierVars, recordVars, gatewayVars, assignmentVars>>
nonGatewayVars == <<tierVars, recordVars, runtimeVars, assignmentVars>>
nonAssignmentVars == <<tierVars, recordVars, runtimeVars, gatewayVars>>

----------------------------------------------------------------------------
(* Bounds of the model.                                                    *)

\* Number of calendar years, from 2023 on, that the input instants span
\* (2023 is a common year, 2024 a leap year).
NumYears == 2

\* Most assignments a record holds, over all its tiers.
MaxLen == 2

----------------------------------------------------------------------------
(* chrono: the proleptic Gregorian calendar in UTC.  A DateTime<Utc> is a  *)
(* record of its fields; arithmetic goes through the epoch-second          *)
(* timestamp, as chrono's does.                                            *)

DateTime(y, mo, d, h, mi, s, n) ==
    [year |-> y, month |-> mo, day |-> d,
     hour |-> h, minute |-> mi, second |-> s, nano |-> n]

IsLeapYear(y) == (y % 4 = 0 /\ y % 100 # 0) \/ y % 400 = 0

DaysInMonth(y, m) ==
    IF m = 2 THEN (IF IsLeapYear(y) THEN 29 ELSE 28)
    ELSE IF m \in {4, 6, 9, 11} THEN 30 ELSE 31

\* Days from 1970-01-01 to y-m-d.
DaysFromCivil(y, m, d) ==
    LET yy  == IF m <= 2 THEN y - 1 ELSE y
        era == yy \div 400
        yoe == yy - era * 400
        mp  == IF m > 2 THEN m - 3 ELSE m + 9
        doy == (153 * mp + 2) \div 5 + d - 1
        doe == yoe * 365 + yoe \div 4 - yoe \div 100 + doy
    IN era * 146097 + doe - 719468

\* The date that lies z days after 1970-01-01.
CivilFromDays(z) ==
    LET zz  == z + 719468
        era == zz \div 146097
        doe == zz - era * 146097
        yoe == (doe - doe \div 1460 + doe \div 36524 - doe \div 146096) \div 365
        doy == doe - (365 * yoe + yoe \div 4 - yoe \div 100)
        mp  == (5 * doy + 2) \div 153
        d   == doy - (153 * mp + 2) \div 5 + 1
        m   == IF mp < 10 THEN mp + 3 ELSE mp - 9
        y   == yoe + era * 400 + (IF m <= 2 THEN 1 ELSE 0)
    IN [year |-> y, month |-> m, day |-> d]

\* DateTime::timestamp(): whole seconds since the epoch; the nanoseconds are dropped.
Timestamp(dt) ==
    DaysFromCivil(dt.year, dt.month, dt.day) * 86400
        + dt.hour * 3600 + dt.minute * 60 + dt.second

FromTimestamp(secs, n) ==
    LET date == CivilFromDays(secs \div 86400)
        sod  == secs % 86400
    IN DateTime(date.year, date.month, date.day,
                sod \div 3600, (sod % 3600) \div 60, sod % 60, n)

\* time + Duration, for a duration of whole seconds.
AddDuration(dt, secs) == FromTimestamp(Timestamp(dt) + secs, dt.nano)

\* (a - b).num_days() for a >= b: the whole days of the difference.
NumDaysBetween(a, b) == (Timestamp(a) - Timestamp(b)) \div 86400

\* Ord for DateTime<Utc>.
DtLess(a, b) ==
    \/ Timestamp(a) < Timestamp(b)
    \/ Timestamp(a) = Timestamp(b) /\ a.nano < b.nano
DtLeq(a, b) == a = b \/ DtLess(a, b)

with_second(dt, s) == [dt EXCEPT !.second = s]
with_minute(dt, mi) == [dt EXCEPT !.minute = mi]
with_hour(dt, h) == [dt EXCEPT !.hour = h]
with_day(dt, d) == [dt EXCEPT !.day = d]
trunc_subsecs(dt) == [dt EXCEPT !.nano = 0]

get_date(y, m, d) == DateTime(y, m, d, 0, 0, 0, 0)

----------------------------------------------------------------------------
(* Tier                                                                    *)

MinuteTiers == {"Min1", "Min5", "Min10", "Min30"}
HourTiers == {"Hour1", "Hour3", "Hour6", "Hour12"}
DayTiers == {"Day1", "Day7", "Day15", "Day30", "Day90", "Day180", "Day365"}
Tier == MinuteTiers \cup HourTiers \cup DayTiers

check_is_correct_minute(dt, base_min) ==
    dt.second = 0 /\ dt.nano = 0 /\ dt.minute % base_min = 0

check_is_correct_hour(dt, base_hour) ==
    dt.minute = 0 /\ dt.second = 0 /\ dt.nano = 0 /\ dt.hour % base_hour = 0

check_is_correct_day_jan1(dt, base_day) ==
    LET year  == get_date(dt.year, 1, 1)
        delta == NumDaysBetween(dt, year)
    IN dt.hour = 0 /\ dt.minute = 0 /\ dt.second = 0 /\ dt.nano = 0
        /\ delta % base_day = 0

check_is_correct_day(dt, base_day) ==
    LET year  == get_date(dt.year - 1, 12, 31)
        delta == NumDaysBetween(dt, year)
    IN dt.hour = 0 /\ dt.minute = 0 /\ dt.second = 0 /\ dt.nano = 0
        /\ delta % base_day = 0

is_valid_slot(self, dt) ==
    CASE self = "Min1"   -> dt.nano = 0 /\ dt.second = 0
      [] self = "Min5"   -> check_is_correct_minute(dt, 5)
      [] self = "Min10"  -> check_is_correct_minute(dt, 10)
      [] self = "Min30"  -> check_is_correct_minute(dt, 30)
      [] self = "Hour1"  -> dt.nano = 0 /\ dt.second = 0 /\ dt.minute = 0
      [] self = "Hour3"  -> check_is_correct_hour(dt, 3)
      [] self = "Hour6"  -> check_is_correct_hour(dt, 6)
      [] self = "Hour12" -> check_is_correct_hour(dt, 12)
      [] self = "Day1"   -> dt.nano = 0 /\ dt.second = 0 /\ dt.minute = 0 /\ dt.hour = 0
      [] self = "Day7"   -> check_is_correct_day(dt, 7)
      [] self = "Day15"  -> check_is_correct_day(dt, 15)
      [] self = "Day30"  -> check_is_correct_day(dt, 30)
      [] self = "Day90"  -> check_is_correct_day(dt, 90)
      [] self = "Day180" -> check_is_correct_day(dt, 180)
      [] self = "Day365" -> check_is_correct_day(dt, 365)

\* tier_duration(), in seconds.
tier_duration(self) ==
    CASE self = "Min1"   -> 1 * 60
      [] self = "Min5"   -> 5 * 60
      [] self = "Min10"  -> 10 * 60
      [] self = "Min30"  -> 30 * 60
      [] self = "Hour1"  -> 1 * 3600
      [] self = "Hour3"  -> 3 * 3600
      [] self = "Hour6"  -> 6 * 3600
      [] self = "Hour12" -> 12 * 3600
      [] self = "Day1"   -> 1 * 86400
      [] self = "Day7"   -> 7 * 86400
      [] self = "Day15"  -> 15 * 86400
      [] self = "Day30"  -> 30 * 86400
      [] self = "Day90"  -> 90 * 86400
      [] self = "Day180" -> 180 * 86400
      [] self = "Day365" -> 365 * 86400

\* A returned instant, and a panic (an unwrap() of None).
Returned(dt) == [ok |-> TRUE, time |-> dt]
Panicked(dt) == [ok |-> FALSE, time |-> dt]

normalize_to_next_minute(self, time0, base_minute) ==
    LET is_rounded == time0.minute % base_minute = 0 /\ time0.second = 0 /\ time0.nano = 0
        t1 == trunc_subsecs(with_second(time0, 0))
        remainder_minutes == t1.minute % base_minute
    IN IF is_rounded THEN Returned(time0)
       ELSE IF remainder_minutes # 0
            THEN Returned(AddDuration(with_minute(t1, t1.minute - remainder_minutes),
                                      tier_duration(self)))
            ELSE Returned(t1)

normalize_to_next_hour(self, time0, base_hour) ==
    LET is_rounded == time0.hour % base_hour = 0 /\ time0.minute = 0
                        /\ time0.second = 0 /\ time0.nano = 0
        t1 == trunc_subsecs(with_minute(with_second(time0, 0), 0))
        remainder_hours == t1.hour % base_hour
    IN IF is_rounded THEN Returned(time0)
       ELSE IF remainder_hours # 0
            THEN Returned(AddDuration(with_hour(t1, t1.hour - remainder_hours),
                                      tier_duration(self)))
            ELSE Returned(t1)

\* with_day(day - remainder_days) is None, and its unwrap() panics, when the
\* remainder is not smaller than the day of the month (0, or a u32 underflow).
normalize_to_next_day(self, time0, base_day) ==
    LET year  == get_date(time0.year - 1, 12, 31)
        delta == NumDaysBetween(time0, year)
        is_rounded == time0.hour = 0 /\ time0.minute = 0 /\ time0.second = 0
                        /\ time0.nano = 0 /\ delta % base_day = 0
        t1 == trunc_subsecs(with_minute(with_second(time0, 0), 0))
        remainder_days == delta % base_day
    IN IF is_rounded THEN Returned(time0)
       ELSE IF remainder_days # 0
            THEN IF t1.day > remainder_days
                 THEN Returned(AddDuration(with_day(t1, t1.day - remainder_days),
                                           tier_duration(self)))
                 ELSE Panicked(t1)
            ELSE Returned(t1)

normalize_to_next(self, time0) ==
    CASE self = "Min1" ->
            LET is_rounded == time0.hour = 0 /\ time0.second = 0 /\ time0.nano = 0
            IN IF ~is_rounded
               THEN Returned(AddDuration(trunc_subsecs(with_second(time0, 0)),
                                         tier_duration(self)))
               ELSE Returned(time0)
      [] self = "Min5"   -> normalize_to_next_minute(self, time0, 5)
      [] self = "Min10"  -> normalize_to_next_minute(self, time0, 10)
      [] self = "Min30"  -> normalize_to_next_minute(self, time0, 15)
      [] self \in {"Hour1", "Day1"} ->
            LET is_rounded == time0.hour = 0 /\ time0.minute = 0
                                /\ time0.second = 0 /\ time0.nano = 0
            IN IF ~is_rounded
               THEN Returned(AddDuration(
                        trunc_subsecs(with_minute(with_second(time0, 0), 0)),
                        tier_duration(self)))
               ELSE Returned(time0)
      [] self = "Hour3"  -> normalize_to_next_hour(self, time0, 3)
      [] self = "Hour6"  -> normalize_to_next_hour(self, time0, 6)
      [] self = "Hour12" -> normalize_to_next_hour(self, time0, 12)
      [] self = "Day7"   -> normalize_to_next_day(self, time0, 7)
      [] self = "Day15"  -> normalize_to_next_day(self, time0, 15)
      [] self = "Day30"  -> normalize_to_next_day(self, time0, 30)
      [] self = "Day90"  -> normalize_to_next_day(self, time0, 90)
      [] self = "Day180" -> normalize_to_next_day(self, time0, 180)
      [] self = "Day365" -> normalize_to_next_day(self, time0, 365)

----------------------------------------------------------------------------
(* The input instants of SpecTier.                                         *)

Years == 2023..(2023 + NumYears - 1)

\* Every midnight of Years, and three other times of each of those days.
DayInstants ==
    {DateTime(y, m, d, c[1], c[2], c[3], c[4]) :
        y \in Years, m \in 1..12, d \in 1..31,
        c \in {<<0, 0, 0, 0>>, <<5, 30, 0, 0>>, <<0, 0, 0, 1>>, <<23, 0, 30, 0>>}}

\* Every minute of three hours, and every hour, of the first and the last day
\* of 2023, on and off the full second.
ClockDates == {<<2023, 1, 1>>, <<2023, 12, 31>>}
SubMinute == {<<0, 0>>, <<30, 0>>, <<0, 1>>}
MinuteInstants ==
    {DateTime(dd[1], dd[2], dd[3], h, mi, s[1], s[2]) :
        dd \in ClockDates, h \in {0, 5, 23}, mi \in 0..59, s \in SubMinute}
HourInstants ==
    {DateTime(dd[1], dd[2], dd[3], h, mi, s[1], s[2]) :
        dd \in ClockDates, h \in 0..23, mi \in {0, 30}, s \in SubMinute}

Instants ==
    {dt \in DayInstants : dt.day <= DaysInMonth(dt.year, dt.month)}
        \cup MinuteInstants \cup HourInstants

NoTime == DateTime(1970, 1, 1, 0, 0, 0, 0)

----------------------------------------------------------------------------
(* The idle values of the parts of the state.                              *)

TierIdle ==
    /\ tier = "Min1"
    /\ time = NoTime
    /\ pc = "idle"
    /\ valid = FALSE
    /\ normalized = Returned(NoTime)

EmptyMap == [t \in {} |-> <<>>]

NoAssignment == [tier |-> "Min1", time_slot |-> NoTime, assignee |-> 0]

RecordIdle ==
    /\ tokens_by_tier = EmptyMap
    /\ summary = EmptyMap
    /\ last_op = "idle"
    /\ delta_out = EmptyMap
    /\ probe = NoAssignment
    /\ exists_out = FALSE
    /\ edited = FALSE

\* A byte vector (Parameters, State, StateDelta, StateSummary): its first
\* bytes written out, then a run of pad zero bytes.  The written part never
\* ends in a zero, so that equal vectors are equal records.
RECURSIVE ByteVec(_, _)
ByteVec(head, pad) ==
    IF Len(head) > 0 /\ head[Len(head)] = 0
    THEN ByteVec(SubSeq(head, 1, Len(head) - 1), pad + 1)
    ELSE [head |-> head, pad |-> pad]

NoBytes == ByteVec(<<>>, 0)

None == [some |-> FALSE, pages |-> 0]
Some(pages) == [some |-> TRUE, pages |-> pages]

NoCall ==
    [op |-> "none", key |-> "", parameters |-> NoBytes, state |-> NoBytes,
     other |-> NoBytes, req_bytes |-> 0, in_store |-> FALSE, cached |-> FALSE,
     modules_before |-> {}, prepared |-> FALSE, memory_pages |-> 0,
     invoked |-> FALSE, args |-> <<>>, ret |-> 0, written |-> NoBytes]

\* A RuntimeResult: Ok(bool), Ok(State) or Err(error).
OkBool(b)  == [ok |-> TRUE, is |-> "bool", bool |-> b, state |-> NoBytes,
               err |-> "", req |-> 0, free |-> 0]
OkState(st) == [ok |-> TRUE, is |-> "state", bool |-> FALSE, state |-> st,
               err |-> "", req |-> 0, free |-> 0]
Err(e, req, free) == [ok |-> FALSE, is |-> "err", bool |-> FALSE, state |-> NoBytes,
               err |-> e, req |-> req, free |-> free]

RuntimeIdle ==
    /\ contracts = {}
    /\ modules = {}
    /\ host_memory = None
    /\ fetched = {}
    /\ rt_call = NoCall
    /\ rt_result = Err("none", 0, 0)

\* The gateways of the process.
Gateways == {"gw1", "gw2"}

NoMap == [c \in {} |-> 0]

\* A gateway's task: waiting to be called, inside recv past the fetch_add
\* (holding the id and the reply channel), or dead by a panic.
AtRest == [at |-> "rest", cli_id |-> 0, ch |-> 0]
InRecv(cli_id, ch) == [at |-> "recv", cli_id |-> cli_id, ch |-> ch]
Dead == [at |-> "panicked", cli_id |-> 0, ch |-> 0]

NoOp == [op |-> "none", gw |-> "", client |-> 0, ch |-> 0, was_pending |-> FALSE,
         rx_dropped |-> FALSE, outcome |-> ""]

GatewayStart ==
    /\ ID = 0
    /\ server_request = [g \in Gateways |-> <<>>]
    /\ senders = [g \in Gateways |-> TRUE]
    /\ pending_responses = [g \in Gateways |-> NoMap]
    /\ gw_pc = [g \in Gateways |-> AtRest]
    /\ channels = <<>>
    /\ recv_log = <<>>
    /\ sent_to = {}
    /\ gw_last = NoOp

GatewayIdle == GatewayStart

\* A std::time::Duration: whole seconds and the nanoseconds below a second.
Duration(secs, nanos) == [secs |-> secs, nanos |-> nanos]

\* A Result<AllocationCriteria, AllocationError>.
OkCriteria(freq, age, c) ==
    [ok |-> TRUE, frequency |-> freq, max_age |-> age, contract |-> c,
     err |-> ""]
ErrCriteria(e) ==
    [ok |-> FALSE, frequency |-> "Min1", max_age |-> Duration(0, 0), contract |-> 0,
     err |-> e]

AssignmentIdle ==
    /\ assignment = [tier |-> "Min1", time_slot |-> NoTime, assignee |-> <<>>]
    /\ frequency = "Min1"
    /\ max_age = Duration(0, 0)
    /\ contract = 0
    /\ asg_pc = "idle"
    /\ criteria = ErrCriteria("none")
    /\ signed_msg = <<>>
    /\ slot_trace = <<>>

----------------------------------------------------------------------------
(* SpecTier: a tier and an instant are drawn, and one function is applied. *)

TierInit ==
    /\ tier \in Tier
    /\ time \in Instants
    /\ pc = "input"
    /\ valid = FALSE
    /\ normalized = Returned(NoTime)
    /\ RecordIdle
    /\ RuntimeIdle
    /\ GatewayIdle
    /\ AssignmentIdle

IsValidSlot ==
    /\ pc = "input"
    /\ valid' = is_valid_slot(tier, time)
    /\ pc' = "is_valid_slot"
    /\ UNCHANGED <<tier, time, normalized>>
    /\ UNCHANGED nonTierVars

NormalizeToNext ==
    /\ pc = "input"
    /\ normalized' = normalize_to_next(tier, time)
    /\ pc' = "normalize_to_next"
    /\ UNCHANGED <<tier, time, valid>>
    /\ UNCHANGED nonTierVars

TierNext == IsValidSlot \/ NormalizeToNext

SpecTier == TierInit /\ [][TierNext]_vars

----------------------------------------------------------------------------
(* TokenAssignment and TokenAllocationRecord                               *)
(*                                                                         *)
(* A TokenAssignment is [tier, time_slot, assignee]; signature,            *)
(* assignment_hash and token_record take part in the derived PartialEq     *)
(* exactly as assignee does and stand behind it here.  A HashMap is a      *)
(* function on the set of its keys.                                        *)

\* Ord for TokenAssignment: by time_slot alone.
AssignmentLess(a, b) == DtLess(a.time_slot, b.time_slot)

\* No element of s is greater, under Ord, than one that follows it.
IsSorted(s) ==
    \A i \in 1..Len(s), j \in 1..Len(s) : i < j => ~AssignmentLess(s[j], s[i])

\* sort_unstable(): every ordering of the elements that is sorted under Ord;
\* which of two equal elements comes first is not specified.
sort_unstable(s) ==
    {q \in {[i \in 1..Len(s) |-> s[p[i]]] : p \in Permutations(1..Len(s))} :
        IsSorted(q)}

\* <[T]>::binary_search(&x) over i64, as core::slice implements it (Rust
\* 1.52 to 1.81): found is Ok(idx), not found is Err(idx); idx counts from 0.
RECURSIVE binary_search_from(_, _, _, _)
binary_search_from(s, x, left, right) ==
    IF left < right
    THEN LET mid == left + (right - left) \div 2
         IN IF s[mid + 1] < x THEN binary_search_from(s, x, mid + 1, right)
            ELSE IF s[mid + 1] > x THEN binary_search_from(s, x, left, mid)
            ELSE [found |-> TRUE, idx |-> mid]
    ELSE [found |-> FALSE, idx |-> left]

binary_search(s, x) == binary_search_from(s, x, 0, Len(s))

\* binary_search_by(|t| t.time_slot.cmp(&slot)) over assignments.
RECURSIVE binary_search_by_from(_, _, _, _)
binary_search_by_from(s, slot, left, right) ==
    IF left < right
    THEN LET mid == left + (right - left) \div 2
         IN IF DtLess(s[mid + 1].time_slot, slot)
            THEN binary_search_by_from(s, slot, mid + 1, right)
            ELSE IF DtLess(slot, s[mid + 1].time_slot)
            THEN binary_search_by_from(s, slot, left, mid)
            ELSE [found |-> TRUE, idx |-> mid]
    ELSE [found |-> FALSE, idx |-> left]

binary_search_by(s, slot) == binary_search_by_from(s, slot, 0, Len(s))

\* HashMap::insert: the value of an existing key is replaced.
MapInsert(m, k, v) == [t \in DOMAIN m \cup {k} |-> IF t = k THEN v ELSE m[t]]

\* TokenAllocationRecord::new: the records it may return.
new(tokens) ==
    {m \in [DOMAIN tokens -> UNION {sort_unstable(tokens[t]) : t \in DOMAIN tokens}] :
        \A t \in DOMAIN tokens : m[t] \in sort_unstable(tokens[t])}

insert(tokens, t, assignments) == MapInsert(tokens, t, assignments)

summarize(tokens) ==
    [t \in DOMAIN tokens |->
        [i \in 1..Len(tokens[t]) |-> Timestamp(tokens[t][i].time_slot)]]

delta(tokens, summ) ==
    [t \in DOMAIN summ \cap DOMAIN tokens |->
        LET missing(a) == ~binary_search(summ[t], Timestamp(a.time_slot)).found
        IN SelectSeq(tokens[t], missing)]

assignment_exists(tokens, record) ==
    IF record.tier \notin DOMAIN tokens THEN FALSE
    ELSE LET assignments == tokens[record.tier]
             r == binary_search_by(assignments, record.time_slot)
         IN IF ~r.found THEN FALSE
            ELSE assignments[r.idx + 1] = record

----------------------------------------------------------------------------
(* The inputs of SpecRecord.                                               *)

\* The tiers used as keys.
RecordTiers == {"Min1", "Hour1"}

\* 2023-01-01T00:00:00 (a slot of both tiers) and T00:01:00 (a slot of Min1
\* alone).
TimeSlots ==
    {DateTime(2023, 1, 1, 0, 0, 0, 0), DateTime(2023, 1, 1, 0, 1, 0, 0)}

Assignees == {1, 2}

\* The assignments filed under tier t.
Assignments(t) ==
    {[tier |-> t, time_slot |-> s, assignee |-> p] : s \in TimeSlots, p \in Assignees}

AllAssignments == UNION {Assignments(t) : t \in RecordTiers}

SeqsUpTo(S, n) == UNION {[1..k -> S] : k \in 0..n}

RECURSIVE SumLen(_, _)
SumLen(m, keys) ==
    IF keys = {} THEN 0
    ELSE LET k == CHOOSE x \in keys : TRUE
         IN Len(m[k]) + SumLen(m, keys \ {k})

TotalLen(m) == SumLen(m, DOMAIN m)

\* The lists filed under tier t: its assignments, in any order.
InputLists(t) == SeqsUpTo(Assignments(t), MaxLen)

\* The maps handed to new: lists of at most MaxLen assignments in all.
InputMaps ==
    UNION {{m \in [D -> UNION {InputLists(t) : t \in D}] :
                /\ \A t \in D : m[t] \in InputLists(t)
                /\ TotalLen(m) <= MaxLen}
           : D \in SUBSET RecordTiers}

----------------------------------------------------------------------------
(* SpecRecord: a record is built by new(map) and then used.                *)

RecordInit ==
    /\ \E tokens \in InputMaps : tokens_by_tier \in new(tokens)
    /\ summary = EmptyMap
    /\ last_op = "new"
    /\ delta_out = EmptyMap
    /\ probe = NoAssignment
    /\ exists_out = FALSE
    /\ edited = FALSE
    /\ TierIdle
    /\ RuntimeIdle
    /\ GatewayIdle
    /\ AssignmentIdle

Insert ==
    \E t \in RecordTiers : \E assignments \in InputLists(t) :
        /\ TotalLen(insert(tokens_by_tier, t, assignments)) <= MaxLen
        /\ tokens_by_tier' = insert(tokens_by_tier, t, assignments)
        /\ last_op' = "insert"
        /\ delta_out' = EmptyMap
        /\ probe' = NoAssignment
        /\ exists_out' = FALSE
        /\ UNCHANGED <<summary, edited>>
        /\ UNCHANGED nonRecordVars

\* get_mut_tier hands out the tier's Vec; the caller pushes an assignment.
GetMutTier ==
    \E t \in DOMAIN tokens_by_tier : \E a \in Assignments(t) :
        /\ TotalLen(tokens_by_tier) < MaxLen
        /\ tokens_by_tier' = [tokens_by_tier EXCEPT ![t] = Append(@, a)]
        /\ edited' = TRUE
        /\ last_op' = "get_mut_tier"
        /\ delta_out' = EmptyMap
        /\ probe' = NoAssignment
        /\ exists_out' = FALSE
        /\ UNCHANGED summary
        /\ UNCHANGED nonRecordVars

Summarize ==
    /\ summary' = summarize(tokens_by_tier)
    /\ last_op' = "summarize"
    /\ delta_out' = EmptyMap
    /\ probe' = NoAssignment
    /\ exists_out' = FALSE
    /\ UNCHANGED <<tokens_by_tier, edited>>
    /\ UNCHANGED nonRecordVars

Delta ==
    /\ delta_out' = delta(tokens_by_tier, summary)
    /\ last_op' = "delta"
    /\ probe' = NoAssignment
    /\ exists_out' = FALSE
    /\ UNCHANGED <<tokens_by_tier, summary, edited>>
    /\ UNCHANGED nonRecordVars

AssignmentExists ==
    \E record \in AllAssignments :
        /\ probe' = record
        /\ exists_out' = assignment_exists(tokens_by_tier, record)
        /\ last_op' = "assignment_exists"
        /\ delta_out' = EmptyMap
        /\ UNCHANGED <<tokens_by_tier, summary, edited>>
        /\ UNCHANGED nonRecordVars

RecordNext == Insert \/ GetMutTier \/ Summarize \/ Delta \/ AssignmentExists

SpecRecord == RecordInit /\ [][RecordNext]_vars

----------------------------------------------------------------------------
(* Runtime (crates/locutus-runtime/src/runtime.rs)                         *)
(*                                                                         *)
(* A ContractKey names one bytecode, so the ContractStore is the set of    *)
(* keys it holds and the module cache the set of keys it has a Module for. *)
(* The guest is wasm outside the Runtime: what an entry point returns and  *)
(* leaves in its buffers is an input of the call.                          *)

WASM_PAGE_SIZE == 65536

\* The extent of the Memory the host creates in host-memory mode.
HostInitialPages == 20

\* The memory type the contracts' modules declare for the memory they
\* export in guest-memory mode.
GuestMinPages == 1
GuestMaxPages == 3

ContractKey == {"test_contract", "malformed_contract"}

\* Module::new fails on bytecode that is not a wasm module.
WellFormed(key) == key # "malformed_contract"

size(b) == Len(b.head) + b.pad

ByteAt(b, i) == IF i <= Len(b.head) THEN b.head[i] ELSE 0

Max(a, b) == IF a >= b THEN a ELSE b
Min(a, b) == IF a <= b THEN a ELSE b

\* (a variant that reads the buffer to its end, whatever len is)
read_bytes_to_end(b, len) == b

\* BufferMut::read_bytes(len): the first len bytes of the buffer.
read_bytes(b, len) ==
    ByteVec(SubSeq(b.head, 1, Min(len, Len(b.head))),
            IF len > Len(b.head) THEN len - Len(b.head) ELSE 0)

\* What a buffer holds once the guest has stored g at its start: g, then
\* the bytes that were there before and that g does not reach.
Overlay(g, before) ==
    LET n == Max(Len(g.head), Len(before.head))
    IN ByteVec([i \in 1..n |-> IF i <= size(g) THEN ByteAt(g, i)
                                               ELSE ByteAt(before, i)],
               Max(size(g), size(before)) - n)

\* Pages::try_from(Bytes(req_bytes)): whole pages, rounded down.
BytesToPages(req_bytes) == req_bytes \div WASM_PAGE_SIZE

\* Memory::grow(by) on a memory of `pages` pages with an optional maximum:
\* the new extent, or an error when it would pass the maximum.
grow(pages, by, maximum) ==
    IF maximum.some /\ pages + by > maximum.pages
    THEN [ok |-> FALSE, pages |-> pages]
    ELSE [ok |-> TRUE, pages |-> pages + by]

\* Runtime::build(contracts, host_mem).
build(store, host_mem) ==
    [contracts |-> store,
     modules |-> {},
     host_memory |-> IF host_mem THEN Some(HostInitialPages) ELSE None]

\* (a variant that caches the key before the fetch is known to succeed)
get_module_insert_first(key) ==
    IF key \notin contracts
    THEN [ok |-> FALSE, err |-> "ContractNotFound", modules |-> modules \cup {key},
          fetched |-> fetched]
    ELSE IF ~WellFormed(key)
    THEN [ok |-> FALSE, err |-> "CompileError", modules |-> modules,
          fetched |-> fetched]
    ELSE [ok |-> TRUE, err |-> "", modules |-> modules \cup {key},
          fetched |-> fetched \cup {key}]

get_module(key) ==
    IF key \notin contracts
    THEN [ok |-> FALSE, err |-> "ContractNotFound", modules |-> modules,
          fetched |-> fetched]
    ELSE IF ~WellFormed(key)
    THEN [ok |-> FALSE, err |-> "CompileError", modules |-> modules,
          fetched |-> fetched]
    ELSE [ok |-> TRUE, err |-> "", modules |-> modules \cup {key},
          fetched |-> fetched \cup {key}]

\* (a variant that fetches and compiles on every call, cached or not)
prepare_call_refetch(key, req_bytes) ==
    LET got == get_module(key)
        memory_size == IF host_memory.some THEN host_memory.pages ELSE GuestMinPages
        maximum == IF host_memory.some THEN None ELSE Some(GuestMaxPages)
        req_pages == BytesToPages(req_bytes)
        grown == IF memory_size < req_pages
                 THEN grow(memory_size, req_pages - memory_size, maximum)
                 ELSE [ok |-> TRUE, pages |-> memory_size]
    IN IF ~got.ok
       THEN [ok |-> FALSE, result |-> Err(got.err, 0, 0),
             modules |-> got.modules, fetched |-> got.fetched,
             host_memory |-> host_memory, memory_pages |-> 0]
       ELSE [ok |-> grown.ok,
             result |-> IF grown.ok THEN OkBool(TRUE)
                        ELSE Err("InsufficientMemory",
                                 req_pages * WASM_PAGE_SIZE,
                                 grown.pages * WASM_PAGE_SIZE),
             modules |-> got.modules, fetched |-> got.fetched,
             host_memory |-> IF host_memory.some THEN Some(grown.pages)
                             ELSE host_memory,
             memory_pages |-> grown.pages]

\* prepare_call: the module (cached, or fetched and compiled), a fresh
\* instance, and its memory grown to req_pages.  The memory is the host's
\* when there is one, and otherwise the one the fresh instance exports.
prepare_call(key, req_bytes) ==
    LET got == IF key \in modules
               THEN [ok |-> TRUE, err |-> "", modules |-> modules,
                     fetched |-> fetched]
               ELSE get_module(key)
        memory_size == IF host_memory.some THEN host_memory.pages ELSE GuestMinPages
        maximum == IF host_memory.some THEN None ELSE Some(GuestMaxPages)
        req_pages == BytesToPages(req_bytes)
        grown == IF memory_size < req_pages
                 THEN grow(memory_size, req_pages - memory_size, maximum)
                 ELSE [ok |-> TRUE, pages |-> memory_size]
    IN IF ~got.ok
       THEN [ok |-> FALSE, result |-> Err(got.err, 0, 0),
             modules |-> got.modules, fetched |-> got.fetched,
             host_memory |-> host_memory, memory_pages |-> 0]
       ELSE [ok |-> grown.ok,
             result |-> IF grown.ok THEN OkBool(TRUE)
                        ELSE Err("InsufficientMemory",
                                 req_pages * WASM_PAGE_SIZE,
                                 grown.pages * WASM_PAGE_SIZE),
             modules |-> got.modules, fetched |-> got.fetched,
             host_memory |-> IF host_memory.some THEN Some(grown.pages)
                             ELSE host_memory,
             memory_pages |-> grown.pages]

\* The validate_state entry point of the test contract: it reads the first
\* four bytes of the state buffer it is handed and accepts [1, _, _, 4].
guest_validate_state(param_buf, state_buf) ==
    IF ByteAt(state_buf, 1) = 1 /\ ByteAt(state_buf, 4) = 4 THEN 1 ELSE 0

\* UpdateResult::try_from(i32).
UpdateResult_try_from(ret) ==
    CASE ret = 0 -> [ok |-> TRUE, res |-> "ValidUpdate"]
      [] ret = 1 -> [ok |-> TRUE, res |-> "ValidNoChange"]
      [] ret = 2 -> [ok |-> TRUE, res |-> "Invalid"]
      [] OTHER   -> [ok |-> FALSE, res |-> ""]

\* What the host finds in the state buffer after the guest stored `written`
\* as the state.  A state longer than the buffer's capacity makes the guest
\* move it: the host then reads the moved buffer, or the one it wrote (the
\* "invalidate the previous ptr" of the fixme).
state_buf_after(state, written) ==
    IF size(written) <= size(state)
    THEN {Overlay(written, state)}
    ELSE {written, state}

\* (a variant that hands the entry point the two buffers in the wrong order)
validate_state_swapped(parameters, state) ==
    LET param_buf == parameters
        state_buf == state
        ret == guest_validate_state(state_buf, param_buf)
        is_valid == ret # 0
    IN [args |-> <<"state_buf", "param_buf">>, ret |-> ret,
        result |-> OkBool(is_valid)]

\* validate_state once prepare_call has returned the instance.
validate_state(parameters, state) ==
    LET param_buf == parameters
        state_buf == state
        ret == guest_validate_state(param_buf, state_buf)
        is_valid == ret # 0
    IN [args |-> <<"param_buf", "state_buf">>, ret |-> ret,
        result |-> OkBool(is_valid)]

\* (a variant that takes Invalid for "no change")
match_update_res_invalid_ok(ret, state, written) ==
    LET update_res == UpdateResult_try_from(ret)
    IN IF ~update_res.ok THEN {Err("UnexpectedResult", 0, 0)}
       ELSE IF update_res.res = "ValidUpdate"
       THEN {OkState(read_bytes(state_buf, size(state))) :
                state_buf \in state_buf_after(state, written)}
       ELSE {OkState(state)}

\* What update_state and update_state_from_summary make of the entry
\* point's return value: the possible results.
match_update_res(ret, state, written) ==
    LET update_res == UpdateResult_try_from(ret)
    IN IF ~update_res.ok THEN {Err("UnexpectedResult", 0, 0)}
       ELSE CASE update_res.res = "ValidNoChange" -> {OkState(state)}
              [] update_res.res = "ValidUpdate" ->
                    {OkState(read_bytes(state_buf, size(state))) :
                        state_buf \in state_buf_after(state, written)}
              [] update_res.res = "Invalid" -> {Err("InvalidPutValue", 0, 0)}

\* update_state once prepare_call has returned the instance; guest is what
\* the entry point returns and leaves as the state: [ret, written].
update_state(parameters, state, state_delta, guest) ==
    {[args |-> <<"param_buf", "delta_buf">>, ret |-> guest.ret, result |-> r] :
        r \in match_update_res(guest.ret, state, guest.written)}

update_state_from_summary(parameters, current_state, current_summary, guest) ==
    {[args |-> <<"param_buf", "state_buf", "summary_buf">>, ret |-> guest.ret,
      result |-> r] :
        r \in match_update_res(guest.ret, current_state, guest.written)}

----------------------------------------------------------------------------
(* The inputs of SpecRuntime.                                              *)

\* The two states of the runtime's tests, and the first of them followed by
\* one, three and twenty-one pages of zeros.
StateInputs ==
    {ByteVec(<<1, 2, 3, 4>>, 0), ByteVec(<<1, 0, 0, 1>>, 0)}
        \cup {ByteVec(<<1, 2, 3, 4>>, k * WASM_PAGE_SIZE) : k \in {1, 3, 21}}

ParameterInputs == {NoBytes}

DeltaInputs == {ByteVec(<<7>>, 0)}

\* i32 values an entry point can return.
RetCodes == {0, 1, 2, 3}

\* States a guest can store: shorter and longer than the four-byte states
\* above.
GuestStates == {ByteVec(<<9>>, 0), ByteVec(<<1, 2, 3, 4, 5>>, 0)}

\* The guest leaves the state alone or stores another one.
GuestResponses(state) ==
    [ret : RetCodes, written : GuestStates \cup {state}]

----------------------------------------------------------------------------
(* SpecRuntime: a Runtime is built over a store, in either memory mode,    *)
(* and serves calls while the store gains and loses contracts.             *)

RuntimeInit ==
    /\ \E store \in SUBSET ContractKey : \E host_mem \in BOOLEAN :
          LET rt == build(store, host_mem)
          IN /\ contracts = rt.contracts
             /\ modules = rt.modules
             /\ host_memory = rt.host_memory
    /\ fetched = {}
    /\ rt_call = NoCall
    /\ rt_result = Err("none", 0, 0)
    /\ TierIdle
    /\ RecordIdle
    /\ GatewayIdle
    /\ AssignmentIdle

\* The record of a call: its inputs, the store and the module cache it
\* found, what prepare_call did, what the entry point was handed and returned.
Call(op, key, parameters, state, other, req_bytes, prep, invoked, args, ret, written) ==
    [op |-> op, key |-> key, parameters |-> parameters, state |-> state,
     other |-> other, req_bytes |-> req_bytes, in_store |-> key \in contracts,
     cached |-> key \in modules, modules_before |-> modules, prepared |-> prep.ok,
     memory_pages |-> prep.memory_pages, invoked |-> invoked, args |-> args,
     ret |-> ret, written |-> written]

ValidateState ==
    \E key \in ContractKey : \E parameters \in ParameterInputs :
    \E state \in StateInputs :
        LET req_bytes == size(parameters) + size(state)
            prep == prepare_call(key, req_bytes)
            out == validate_state(parameters, state)
        IN /\ modules' = prep.modules
           /\ fetched' = prep.fetched
           /\ host_memory' = prep.host_memory
           /\ IF prep.ok
              THEN /\ rt_call' = Call("validate_state", key, parameters, state,
                                      NoBytes, req_bytes, prep, TRUE, out.args,
                                      out.ret, state)
                   /\ rt_result' = out.result
              ELSE /\ rt_call' = Call("validate_state", key, parameters, state,
                                      NoBytes, req_bytes, prep, FALSE, <<>>, 0,
                                      NoBytes)
                   /\ rt_result' = prep.result
           /\ UNCHANGED contracts
           /\ UNCHANGED nonRuntimeVars

UpdateState ==
    \E key \in ContractKey : \E parameters \in ParameterInputs :
    \E state \in StateInputs : \E state_delta \in DeltaInputs :
        LET req_bytes == size(parameters) + size(state) + size(state_delta)
            prep == prepare_call(key, req_bytes)
        IN /\ modules' = prep.modules
           /\ fetched' = prep.fetched
           /\ host_memory' = prep.host_memory
           /\ IF prep.ok
              THEN \E guest \in GuestResponses(state) :
                   \E out \in update_state(parameters, state, state_delta, guest) :
                      /\ rt_call' = Call("update_state", key, parameters, state,
                                         state_delta, req_bytes, prep, TRUE,
                                         out.args, out.ret, guest.written)
                      /\ rt_result' = out.result
              ELSE /\ rt_call' = Call("update_state", key, parameters, state,
                                      state_delta, req_bytes, prep, FALSE, <<>>,
                                      0, NoBytes)
                   /\ rt_result' = prep.result
           /\ UNCHANGED contracts
           /\ UNCHANGED nonRuntimeVars

UpdateStateFromSummary ==
    \E key \in ContractKey : \E parameters \in ParameterInputs :
    \E current_state \in StateInputs : \E current_summary \in DeltaInputs :
        LET req_bytes == size(parameters) + size(current_state)
                            + size(current_summary)
            prep == prepare_call(key, req_bytes)
        IN /\ modules' = prep.modules
           /\ fetched' = prep.fetched
           /\ host_memory' = prep.host_memory
           /\ IF prep.ok
              THEN \E guest \in GuestResponses(current_state) :
                   \E out \in update_state_from_summary(parameters, current_state,
                                                        current_summary, guest) :
                      /\ rt_call' = Call("update_state_from_summary", key,
                                         parameters, current_state,
                                         current_summary, req_bytes, prep, TRUE,
                                         out.args, out.ret, guest.written)
                      /\ rt_result' = out.result
              ELSE /\ rt_call' = Call("update_state_from_summary", key,
                                      parameters, current_state, current_summary,
                                      req_bytes, prep, FALSE, <<>>, 0, NoBytes)
                   /\ rt_result' = prep.result
           /\ UNCHANGED contracts
           /\ UNCHANGED nonRuntimeVars

\* ContractStore::store_contract, by the node or another runtime that shares
\* the store.
StoreContract ==
    \E key \in ContractKey \ contracts :
        /\ contracts' = contracts \cup {key}
        /\ UNCHANGED <<modules, host_memory, fetched, rt_call, rt_result>>
        /\ UNCHANGED nonRuntimeVars

\* The store loses a contract (its cache and directory are bounded).
StoreDrops ==
    \E key \in contracts :
        /\ contracts' = contracts \ {key}
        /\ UNCHANGED <<modules, host_memory, fetched, rt_call, rt_result>>
        /\ UNCHANGED nonRuntimeVars

RuntimeNext ==
    \/ ValidateState
    \/ UpdateState
    \/ UpdateStateFromSummary
    \/ StoreContract
    \/ StoreDrops

SpecRuntime == RuntimeInit /\ [][RuntimeNext]_vars

----------------------------------------------------------------------------
(* HttpGateway (crates/http-gw/src/client_proxy.rs)                        *)
(*                                                                         *)
(* handle_contract makes a oneshot channel, queues (request, sender) on    *)
(* the gateway's bounded channel and awaits the reply; the node calls recv *)
(* and send on the gateway.  A oneshot channel is [gw, rx, sent]: the      *)
(* gateway it was queued on, whether the caller still holds the receiver,  *)
(* and the number of replies delivered into it.  Within recv only the      *)
(* fetch_add touches what gateways share, so recv is two steps: up to and  *)
(* including the fetch_add, and from there to its return.                  *)

PARALLELISM == 10

\* The number of HTTP requests handle_contract is run for.
MaxRequests == 2

ClientId == 0..MaxRequests

\* (a variant that loads the counter and does not add)
fetch_add_load(v) == [old |-> v, new |-> v]

\* AtomicUsize::fetch_add(1, SeqCst): the previous value, and the value
\* stored.  (The counter stays far below usize::MAX here.)
fetch_add(v) == [old |-> v, new |-> v + 1]

\* HashMap::insert and HashMap::remove on pending_responses.
MapPut(m, k, v) == [x \in DOMAIN m \cup {k} |-> IF x = k THEN v ELSE m[x]]

\* (a variant that looks the entry up and leaves it in the map)
MapRemove_keep(m, k) == m

MapRemove(m, k) == [x \in DOMAIN m \ {k} |-> m[x]]

GatewayInit ==
    /\ GatewayStart
    /\ TierIdle
    /\ RecordIdle
    /\ RuntimeIdle
    /\ AssignmentIdle

\* handle_contract, up to the await of the reply: a fresh oneshot channel,
\* whose sender is queued with the request.  When the gateway's receiving
\* end is gone the send fails, the caller gets NodeError and the channel is
\* dropped.
HandleContract ==
    \E g \in Gateways :
        /\ Len(channels) < MaxRequests
        /\ senders[g]
        /\ IF gw_pc[g].at = "panicked"
           THEN /\ channels' = Append(channels, [gw |-> g, rx |-> "dropped", sent |-> 0])
                /\ UNCHANGED server_request
           ELSE /\ Len(server_request[g]) < PARALLELISM
                /\ channels' = Append(channels, [gw |-> g, rx |-> "waiting", sent |-> 0])
                /\ server_request' =
                      [server_request EXCEPT ![g] = Append(@, Len(channels) + 1)]
        /\ UNCHANGED <<ID, senders, pending_responses, gw_pc, recv_log, sent_to, gw_last>>
        /\ UNCHANGED nonGatewayVars

\* The HTTP caller goes away before the reply arrives: the future of
\* handle_contract is dropped, and the receiver with it.
CallerDrops ==
    \E c \in 1..Len(channels) :
        /\ channels[c].rx = "waiting"
        /\ channels[c].sent = 0
        /\ channels' = [channels EXCEPT ![c].rx = "dropped"]
        /\ UNCHANGED <<ID, server_request, senders, pending_responses, gw_pc,
                       recv_log, sent_to, gw_last>>
        /\ UNCHANGED nonGatewayVars

\* The filter, and the request_sender it holds, is dropped.
FilterDropped ==
    \E g \in Gateways :
        /\ senders[g]
        /\ senders' = [senders EXCEPT ![g] = FALSE]
        /\ UNCHANGED <<ID, server_request, pending_responses, gw_pc, channels,
                       recv_log, sent_to, gw_last>>
        /\ UNCHANGED nonGatewayVars

\* recv, first step: server_request.recv() yields a pair and the id is
\* taken; or the channel is closed and empty, and recv hits todo!().
RecvFetch ==
    \E g \in Gateways :
        /\ gw_pc[g].at = "rest"
        /\ IF server_request[g] # <<>>
           THEN LET response_ch == Head(server_request[g])
                    id == fetch_add(ID)
                IN /\ server_request' = [server_request EXCEPT ![g] = Tail(@)]
                   /\ ID' = id.new
                   /\ gw_pc' = [gw_pc EXCEPT ![g] = InRecv(id.old, response_ch)]
                   /\ recv_log' = Append(recv_log,
                                         [ev |-> "fetch", gw |-> g, client |-> id.old,
                                          ch |-> response_ch])
                   /\ UNCHANGED gw_last
           ELSE /\ ~senders[g]
                /\ gw_pc' = [gw_pc EXCEPT ![g] = Dead]
                /\ gw_last' = [NoOp EXCEPT !.op = "recv", !.gw = g,
                                           !.outcome = "panic_todo"]
                /\ UNCHANGED <<ID, server_request, recv_log>>
        /\ UNCHANGED <<senders, pending_responses, channels, sent_to>>
        /\ UNCHANGED nonGatewayVars

\* recv, second step: the reply sender is stored under the id, and
\* (cli_id, req) is returned.
RecvReturn ==
    \E g \in Gateways :
        /\ gw_pc[g].at = "recv"
        /\ pending_responses' =
              [pending_responses EXCEPT ![g] = MapPut(@, gw_pc[g].cli_id, gw_pc[g].ch)]
        /\ gw_pc' = [gw_pc EXCEPT ![g] = AtRest]
        /\ recv_log' = Append(recv_log,
                              [ev |-> "return", gw |-> g, client |-> gw_pc[g].cli_id,
                               ch |-> gw_pc[g].ch])
        /\ gw_last' = [NoOp EXCEPT !.op = "recv", !.gw = g,
                                   !.client = gw_pc[g].cli_id, !.ch = gw_pc[g].ch,
                                   !.outcome = "ok"]
        /\ UNCHANGED <<ID, server_request, senders, channels, sent_to>>
        /\ UNCHANGED nonGatewayVars

\* send(client, response): remove(&client).unwrap(), ch.send(response)
\* .unwrap(), Ok(()).  The first unwrap panics when there is no entry, the
\* second when the receiver of the oneshot channel has been dropped.
Send ==
    \E g \in Gateways : \E client \in ClientId :
        /\ gw_pc[g].at = "rest"
        /\ sent_to' = sent_to \cup {<<g, client>>}
        /\ IF client \notin DOMAIN pending_responses[g]
           THEN /\ gw_pc' = [gw_pc EXCEPT ![g] = Dead]
                /\ gw_last' = [NoOp EXCEPT !.op = "send", !.gw = g, !.client = client,
                                           !.outcome = "panic_no_entry"]
                /\ UNCHANGED <<pending_responses, channels>>
           ELSE LET ch == pending_responses[g][client]
                IN /\ pending_responses' =
                         [pending_responses EXCEPT ![g] = MapRemove(@, client)]
                   /\ IF channels[ch].rx = "dropped"
                      THEN /\ gw_pc' = [gw_pc EXCEPT ![g] = Dead]
                           /\ gw_last' = [op |-> "send", gw |-> g, client |-> client,
                                          ch |-> ch, was_pending |-> TRUE,
                                          rx_dropped |-> TRUE,
                                          outcome |-> "panic_receiver_dropped"]
                           /\ UNCHANGED channels
                      ELSE /\ channels' = [channels EXCEPT ![ch].sent = @ + 1]
                           /\ gw_last' = [op |-> "send", gw |-> g, client |-> client,
                                          ch |-> ch, was_pending |-> TRUE,
                                          rx_dropped |-> FALSE, outcome |-> "ok"]
                           /\ UNCHANGED gw_pc
        /\ UNCHANGED <<ID, server_request, senders, recv_log>>
        /\ UNCHANGED nonGatewayVars

GatewayNext ==
    \/ HandleContract
    \/ CallerDrops
    \/ FilterDropped
    \/ RecvFetch
    \/ RecvReturn
    \/ Send

SpecGateway == GatewayInit /\ [][GatewayNext]_vars

----------------------------------------------------------------------------
(* AllocationCriteria and TokenAssignment                                  *)
(* (modules/antiflood-tokens/interfaces/src/lib.rs)                        *)
(*                                                                         *)
(* Here the assignee of a TokenAssignment is written out as the 32 bytes   *)
(* of its public key.                                                      *)

\* Most next_slot / previous_slot calls made one after the other.
MaxSlotCalls == 2

\* std::time::Duration::from_secs.
from_secs(secs) == Duration(secs, 0)

\* Ord for std::time::Duration (a <= b): by seconds, then by nanoseconds.
DurationLeq(a, b) == a.secs < b.secs \/ (a.secs = b.secs /\ a.nanos <= b.nanos)

\* (a variant that compares whole seconds only)
AllocationCriteria_new_secs(freq, age, c) ==
    IF age.secs <= 3600 * 24 * 365 * 2
    THEN OkCriteria(freq, age, c)
    ELSE ErrCriteria("IncorrectMaxAge")

\* AllocationCriteria::new.
AllocationCriteria_new(freq, age, c) ==
    IF DurationLeq(age, from_secs(3600 * 24 * 365 * 2))
    THEN OkCriteria(freq, age, c)
    ELSE ErrCriteria("IncorrectMaxAge")

\* The variants of Tier in the order of the enum; `tier as u8` is the
\* position in it, from 0.
TierOrder ==
    <<"Min1", "Min5", "Min10", "Min30", "Hour1", "Hour3", "Hour6", "Hour12",
      "Day1", "Day7", "Day15", "Day30", "Day90", "Day180", "Day365">>

TierAsU8(t) == (CHOOSE i \in 1..Len(TierOrder) : TierOrder[i] = t) - 1

\* (a variant that puts the most significant byte first)
RECURSIVE to_le_bytes_msb_first(_, _)
to_le_bytes_msb_first(v, n) ==
    IF n = 0 THEN <<>>
    ELSE to_le_bytes_msb_first(v \div 256, n - 1) \o <<v % 256>>

\* i64::to_le_bytes (n = 8): the two's complement of v, least significant
\* byte first.  (\div rounds down and % is never negative, so the bytes of a
\* negative v are those of v + 2^64.)
RECURSIVE to_le_bytes(_, _)
to_le_bytes(v, n) ==
    IF n = 0 THEN <<>>
    ELSE <<v % 256>> \o to_le_bytes(v \div 256, n - 1)

TIER_SIZE == 1
TS_SIZE == 8
ASSIGNEE_SIZE == 32
SIGNED_MSG_SIZE == TIER_SIZE + TS_SIZE + ASSIGNEE_SIZE

\* dst[from..to].copy_from_slice(src), on 0-based half-open ranges.
copy_from_slice(dst, from, to, src) ==
    [i \in 1..Len(dst) |-> IF from < i /\ i <= to THEN src[i - from] ELSE dst[i]]

\* TokenAssignment::to_be_signed(issue_time, assigned_to, tier).
to_be_signed(issue_time, assigned_to, t) ==
    LET cursor == TIER_SIZE
        zeroed == [i \in 1..SIGNED_MSG_SIZE |-> 0]
        with_tier == copy_from_slice(zeroed, 0, TIER_SIZE, <<TierAsU8(t)>>)
        timestamp == Timestamp(issue_time)
        with_ts == copy_from_slice(with_tier, cursor, cursor + TS_SIZE,
                                   to_le_bytes(timestamp, TS_SIZE))
        cursor2 == cursor + TS_SIZE
    IN copy_from_slice(with_ts, cursor2, SIGNED_MSG_SIZE, assigned_to)

\* time - Duration, for a duration of whole seconds.
SubDuration(dt, secs) == FromTimestamp(Timestamp(dt) - secs, dt.nano)

\* TokenAssignment::next_slot and previous_slot.
next_slot(self) == AddDuration(self.time_slot, tier_duration(self.tier))

previous_slot(self) == SubDuration(self.time_slot, tier_duration(self.tier))

----------------------------------------------------------------------------
(* The inputs of SpecAssignment.                                           *)

\* Ages around the limit of AllocationCriteria::new.
MaxAges ==
    {Duration(0, 0), Duration(86400, 0),
     Duration(730 * 86400 - 1, 999999999), Duration(730 * 86400, 0),
     Duration(730 * 86400, 1), Duration(730 * 86400 + 1, 0),
     Duration(731 * 86400, 0)}

ContractInstanceId == {1, 2}

\* Days of the year, counted from Dec 31 of the year before: the first and
\* the last multiples of the day tiers' bases, and the last day of a common
\* year.
SlotDayNumbers == {7, 14, 15, 30, 90, 180, 360, 364, 365}

\* Those days in Years at three times of day, the time slot of
\* to_be_signed_test, and a minute before the epoch.
AssignmentSlots ==
    {LET date == CivilFromDays(DaysFromCivil(y - 1, 12, 31) + n)
     IN DateTime(date.year, date.month, date.day, c[1], c[2], 0, 0) :
        y \in Years, n \in SlotDayNumbers, c \in {<<0, 0>>, <<12, 0>>, <<23, 55>>}}
        \cup {get_date(2021, 7, 28), DateTime(1969, 12, 31, 23, 59, 0, 0)}

\* Public keys: [1; 32] of to_be_signed_test, and one whose bytes differ.
AssigneeKeys == {[i \in 1..ASSIGNEE_SIZE |-> 1], [i \in 1..ASSIGNEE_SIZE |-> i]}

----------------------------------------------------------------------------
(* SpecAssignment: the arguments of AllocationCriteria::new, or a          *)
(* TokenAssignment, are drawn, and the functions are applied.              *)

AssignmentInit ==
    /\ \/ /\ asg_pc = "criteria_input"
          /\ frequency \in Tier
          /\ max_age \in MaxAges
          /\ contract \in ContractInstanceId
          /\ assignment = [tier |-> "Min1", time_slot |-> NoTime, assignee |-> <<>>]
       \/ /\ asg_pc = "assignment_input"
          /\ assignment \in [tier : Tier, time_slot : AssignmentSlots,
                             assignee : AssigneeKeys]
          /\ frequency = "Min1"
          /\ max_age = Duration(0, 0)
          /\ contract = 0
    /\ criteria = ErrCriteria("none")
    /\ signed_msg = <<>>
    /\ slot_trace = <<>>
    /\ TierIdle
    /\ RecordIdle
    /\ RuntimeIdle
    /\ GatewayIdle

New ==
    /\ asg_pc = "criteria_input"
    /\ criteria' = AllocationCriteria_new(frequency, max_age, contract)
    /\ asg_pc' = "new"
    /\ UNCHANGED <<assignment, frequency, max_age, contract, signed_msg, slot_trace>>
    /\ UNCHANGED nonAssignmentVars

ToBeSigned ==
    /\ asg_pc = "assignment_input"
    /\ signed_msg' = to_be_signed(assignment.time_slot, assignment.assignee,
                                  assignment.tier)
    /\ asg_pc' = "to_be_signed"
    /\ UNCHANGED <<assignment, frequency, max_age, contract, criteria, slot_trace>>
    /\ UNCHANGED nonAssignmentVars

\* The assignment the next call is made on: the one drawn, or the one for
\* the slot the last call returned.
SlotSelf ==
    IF slot_trace = <<>> THEN assignment
    ELSE [assignment EXCEPT !.time_slot = slot_trace[Len(slot_trace)].to]

NextSlot ==
    /\ asg_pc \in {"assignment_input", "slots"}
    /\ Len(slot_trace) < MaxSlotCalls
    /\ slot_trace' = Append(slot_trace,
                            [op |-> "next_slot", from |-> SlotSelf.time_slot,
                             to |-> next_slot(SlotSelf)])
    /\ asg_pc' = "slots"
    /\ UNCHANGED <<assignment, frequency, max_age, contract, criteria, signed_msg>>
    /\ UNCHANGED nonAssignmentVars

PreviousSlot ==
    /\ asg_pc \in {"assignment_input", "slots"}
    /\ Len(slot_trace) < MaxSlotCalls
    /\ slot_trace' = Append(slot_trace,
                            [op |-> "previous_slot", from |-> SlotSelf.time_slot,
                             to |-> previous_slot(SlotSelf)])
    /\ asg_pc' = "slots"
    /\ UNCHANGED <<assignment, frequency, max_age, contract, criteria, signed_msg>>
    /\ UNCHANGED nonAssignmentVars

AssignmentNext == New \/ ToBeSigned \/ NextSlot \/ PreviousSlot

SpecAssignment == AssignmentInit /\ [][AssignmentNext]_vars

----------------------------------------------------------------------------
(* The whole module: any of the five at work.                              *)

Init == TierInit \/ RecordInit \/ RuntimeInit \/ GatewayInit \/ AssignmentInit

Next == TierNext \/ RecordNext \/ RuntimeNext \/ GatewayNext \/ AssignmentNext

Spec == Init /\ [][Next]_vars

----------------------------------------------------------------------------
(* Claims about the tier algebra (checked under SpecTier).                 *)

\* The granule on which every valid slot of a tier lies, in seconds: the
\* full minute, the full hour, the midnight.
SlotUnit(T) ==
    IF T \in MinuteTiers THEN 60 ELSE IF T \in HourTiers THEN 3600 ELSE 86400

\* The smallest instant strictly after t that is a valid slot of T.  A valid
\* slot has every field below the tier's unit at zero, so it is one of the
\* unit boundaries after t; no tier leaves more than 366 days between slots.
SmallestValidAfter(T, t) ==
    LET unit  == SlotUnit(T)
        floor == Timestamp(t) - (Timestamp(t) % unit)
        at(k) == FromTimestamp(floor + k * unit, 0)
        span  == IF T \in MinuteTiers THEN 30 ELSE IF T \in HourTiers THEN 12 ELSE 366
        k0    == CHOOSE k \in 1..span :
                    /\ is_valid_slot(T, at(k))
                    /\ \A j \in 1..(k - 1) : ~is_valid_slot(T, at(j))
    IN at(k0)

\* b - a < secs, for instants a and b.
GapLess(a, b, secs) ==
    \/ Timestamp(b) - Timestamp(a) < secs
    \/ Timestamp(b) - Timestamp(a) = secs /\ b.nano < a.nano

\* C1: normalize_to_next(t) is t when t is a valid slot of the tier, and
\* otherwise the smallest valid slot strictly greater than t.
C1_NormalizeIsNextValidSlot ==
    (pc = "normalize_to_next" /\ normalized.ok) =>
        normalized.time = IF is_valid_slot(tier, time)
                          THEN time
                          ELSE SmallestValidAfter(tier, time)

\* C2: for each of the 15 tiers the result of normalize_to_next is a valid
\* slot of the tier.
C2_NormalizedIsValidSlot ==
    (pc = "normalize_to_next" /\ normalized.ok) =>
        is_valid_slot(tier, normalized.time)

\* C3: normalize_to_next(t) is never earlier than t, and lies less than the
\* tier's duration plus one minute after it.
C3_NormalizedNotEarlierAndNear ==
    (pc = "normalize_to_next" /\ normalized.ok) =>
        /\ DtLeq(time, normalized.time)
        /\ GapLess(time, normalized.time, tier_duration(tier) + 60)

\* Days of the year y before its month m.
RECURSIVE DaysBeforeMonth(_, _)
DaysBeforeMonth(y, m) ==
    IF m = 1 THEN 0 ELSE DaysBeforeMonth(y, m - 1) + DaysInMonth(y, m - 1)

\* Whole days elapsed since December 31 of the previous calendar year: the
\* day's number within its year (January 1 is 1).
DaysSincePrevDec31(dt) == DaysBeforeMonth(dt.year, dt.month) + dt.day

SlotBase(T) ==
    CASE T \in {"Min1", "Hour1", "Day1"} -> 1
      [] T = "Min5" -> 5      [] T = "Min10" -> 10    [] T = "Min30" -> 30
      [] T = "Hour3" -> 3     [] T = "Hour6" -> 6     [] T = "Hour12" -> 12
      [] T = "Day7" -> 7      [] T = "Day15" -> 15    [] T = "Day30" -> 30
      [] T = "Day90" -> 90    [] T = "Day180" -> 180  [] T = "Day365" -> 365

SlotRule(T, dt) ==
    /\ dt.second = 0 /\ dt.nano = 0
    /\ T \in HourTiers \cup DayTiers => dt.minute = 0
    /\ T \in DayTiers => dt.hour = 0
    /\ T \in MinuteTiers => dt.minute % SlotBase(T) = 0
    /\ T \in HourTiers => dt.hour % SlotBase(T) = 0
    /\ T \in DayTiers => DaysSincePrevDec31(dt) % SlotBase(T) = 0

\* C4: is_valid_slot(dt) holds exactly when the fields below the tier's unit
\* are zero and the tier's coordinate (minute, hour, or whole days since
\* December 31 of the previous year) is a multiple of the tier's base; Day7
\* accepts 2023-01-07 and rejects 2023-01-08, Day30 accepts 2023-01-30 and
\* 2023-03-01 and rejects 2023-03-30.
C4_IsValidSlotRule ==
    pc = "is_valid_slot" =>
        /\ valid = SlotRule(tier, time)
        /\ (tier = "Day7" /\ time = get_date(2023, 1, 7)) => valid
        /\ (tier = "Day7" /\ time = get_date(2023, 1, 8)) => ~valid
        /\ (tier = "Day30" /\ time = get_date(2023, 1, 30)) => valid
        /\ (tier = "Day30" /\ time = get_date(2023, 3, 1)) => valid
        /\ (tier = "Day30" /\ time = get_date(2023, 3, 30)) => ~valid

\* A day tier was asked about a midnight past January and accepted it.
C4_Witness ==
    /\ pc = "is_valid_slot"
    /\ tier = "Day30"
    /\ time = get_date(2023, 3, 1)
    /\ valid

----------------------------------------------------------------------------
(* Claims about the allocation record (checked under SpecRecord).          *)

Range(s) == {s[i] : i \in 1..Len(s)}

\* Occurrences of x in s.
Count(s, x) == Cardinality({i \in 1..Len(s) : s[i] = x})

\* C5: after any sequence of new, insert and edits through get_mut_tier,
\* every tier's list is ordered by time_slot ascending.
C5_ListsSortedByTimeSlot ==
    \A t \in DOMAIN tokens_by_tier :
        \A i \in 1..Len(tokens_by_tier[t]), j \in 1..Len(tokens_by_tier[t]) :
            i < j => DtLeq(tokens_by_tier[t][i].time_slot, tokens_by_tier[t][j].time_slot)

\* C6: in a record reached through new and insert alone, the time_slots of
\* each tier are strictly increasing and each is a valid slot of the tier it
\* is filed under.
C6_SlotsStrictlyIncreasingAndValid ==
    ~edited =>
        \A t \in DOMAIN tokens_by_tier :
            /\ \A i \in 1..Len(tokens_by_tier[t]), j \in 1..Len(tokens_by_tier[t]) :
                 i < j => DtLess(tokens_by_tier[t][i].time_slot,
                                 tokens_by_tier[t][j].time_slot)
            /\ \A i \in 1..Len(tokens_by_tier[t]) :
                 is_valid_slot(t, tokens_by_tier[t][i].time_slot)

\* C7: assignment_exists(a) is true of every assignment a stored in one of
\* the record's lists.
C7_StoredAssignmentExists ==
    (/\ last_op = "assignment_exists"
     /\ \E t \in DOMAIN tokens_by_tier : probe \in Range(tokens_by_tier[t]))
        => exists_out

\* C8: the delta of a record against its own summary holds no assignment.
C8_DeltaOfOwnSummaryEmpty ==
    (last_op = "delta" /\ summary = summarize(tokens_by_tier)) =>
        \A t \in DOMAIN delta_out : delta_out[t] = <<>>

\* C9: delta(S) holds, for each tier of both S and the record, exactly the
\* record's assignments of the tier whose timestamp does not occur in S's
\* list, in the record's order, and no other tier.
C9_DeltaIsThoseNotInSummary ==
    last_op = "delta" =>
        /\ DOMAIN delta_out = DOMAIN summary \cap DOMAIN tokens_by_tier
        /\ \A t \in DOMAIN delta_out :
             LET absent(a) == Timestamp(a.time_slot) \notin Range(summary[t])
             IN delta_out[t] = SelectSeq(tokens_by_tier[t], absent)

\* C10: summarize() has the record's tiers, and gives each the timestamps of
\* its assignments as an ascending list.
C10_SummaryIsSortedProjection ==
    last_op = "summarize" =>
        /\ DOMAIN summary = DOMAIN tokens_by_tier
        /\ \A t \in DOMAIN summary :
             /\ Len(summary[t]) = Len(tokens_by_tier[t])
             /\ \A a \in Range(tokens_by_tier[t]) :
                  Count(summary[t], Timestamp(a.time_slot))
                    = Cardinality({i \in 1..Len(tokens_by_tier[t]) :
                        Timestamp(tokens_by_tier[t][i].time_slot)
                            = Timestamp(a.time_slot)})
             /\ \A i \in 1..Len(summary[t]), j \in 1..Len(summary[t]) :
                  i < j => summary[t][i] <= summary[t][j]

----------------------------------------------------------------------------
(* Claims about panics of the tier algebra (checked under SpecTier).       *)

\* C20: normalize_to_next completes and returns an instant for every tier and
\* every UTC instant: no input makes it panic.
C20_NormalizeNeverPanics ==
    pc = "normalize_to_next" => normalized.ok

----------------------------------------------------------------------------
(* Claims about the Runtime (checked under SpecRuntime).                   *)

UpdateOps == {"update_state", "update_state_from_summary"}

\* C11: when the entry point of update_state or update_state_from_summary
\* returns the Invalid code the call fails with InvalidPutValue, when it
\* returns an integer outside the UpdateResult domain the call fails with
\* UnexpectedResult, and in neither case is a state returned.
C11_InvalidAndUnexpectedAreErrors ==
    (rt_call.op \in UpdateOps /\ rt_call.invoked) =>
        LET decoded == UpdateResult_try_from(rt_call.ret)
        IN /\ (decoded.ok /\ decoded.res = "Invalid") =>
                 rt_result = Err("InvalidPutValue", 0, 0)
           /\ ~decoded.ok => rt_result = Err("UnexpectedResult", 0, 0)

C11_Witness ==
    /\ rt_call.op = "update_state_from_summary"
    /\ rt_call.invoked
    /\ rt_call.ret = 2
    /\ rt_call.written # rt_call.state
    /\ rt_result = Err("InvalidPutValue", 0, 0)

\* C12: on ValidUpdate update_state returns as the new state the full
\* content of the guest-side buffer that replaces the state, whatever its
\* length, and on ValidNoChange it returns the input state unchanged.
C12_ValidUpdateReturnsGuestState ==
    (rt_call.op = "update_state" /\ rt_call.invoked) =>
        LET decoded == UpdateResult_try_from(rt_call.ret)
        IN /\ (decoded.ok /\ decoded.res = "ValidUpdate") =>
                 rt_result = OkState(rt_call.written)
           /\ (decoded.ok /\ decoded.res = "ValidNoChange") =>
                 rt_result = OkState(rt_call.state)

\* C13 (as claimed): every key in the module cache is the key of a contract
\* whose bytecode was fetched from the ContractStore and compiled, and a call
\* for a key with no bytecode in the store fails with ContractNotFound and
\* leaves the module cache unchanged.
C13_CacheOnlyFetchedAndMissingFails ==
    /\ modules \subseteq fetched
    /\ \A key \in modules : WellFormed(key)
    /\ (rt_call.op # "none" /\ ~rt_call.in_store) =>
          /\ rt_result = Err("ContractNotFound", 0, 0)
          /\ modules = rt_call.modules_before

\* C13 (amended): as above, for a call for a key that has no bytecode in the
\* store and no module in the cache.
C13_CacheOnlyFetchedAndUncachedMissingFails ==
    /\ modules \subseteq fetched
    /\ \A key \in modules : WellFormed(key)
    /\ (rt_call.op # "none" /\ ~rt_call.in_store /\ ~rt_call.cached) =>
          /\ rt_result = Err("ContractNotFound", 0, 0)
          /\ modules = rt_call.modules_before

C13_Witness ==
    /\ rt_call.op # "none"
    /\ ~rt_call.in_store
    /\ ~rt_call.cached
    /\ rt_call.modules_before # {}
    /\ rt_result = Err("ContractNotFound", 0, 0)

\* C14: when prepare_call succeeds the memory of the instance is at least
\* req_bytes large (the host grew it by the shortfall); when growing fails
\* the call returns InsufficientMemory with req and free in bytes, whole
\* pages of 64 KiB, and the entry point is not invoked.
C14_MemoryHoldsRequestOrInsufficient ==
    rt_call.op # "none" =>
        /\ rt_call.prepared =>
              rt_call.memory_pages * WASM_PAGE_SIZE >= rt_call.req_bytes
        /\ (~rt_result.ok /\ rt_result.err = "InsufficientMemory") =>
              /\ ~rt_call.invoked
              /\ rt_result.req % WASM_PAGE_SIZE = 0
              /\ rt_result.free % WASM_PAGE_SIZE = 0
              /\ rt_result.free < rt_result.req

\* The verdict of the test contract of the runtime's tests: [1, 2, 3, 4] is
\* valid and [1, 0, 0, 1] is not.
TestVerdict(state) ==
    /\ Len(state.head) >= 4
    /\ state.head[1] = 1
    /\ state.head[4] = 4

----------------------------------------------------------------------------
(* Claims about the HttpGateway (checked under SpecGateway).               *)

\* The recv calls that have returned, and those that have taken their id.
Returns == {recv_log[i] : i \in {j \in 1..Len(recv_log) : recv_log[j].ev = "return"}}
Fetches == {i \in 1..Len(recv_log) : recv_log[i].ev = "fetch"}

C18_SendToDroppedReceiverCompletes ==
    (gw_last.op = "send" /\ gw_last.was_pending /\ gw_last.rx_dropped) =>
        /\ gw_last.outcome = "ok"
        /\ gw_last.client \notin DOMAIN pending_responses[gw_last.gw]
        /\ gw_pc[gw_last.gw].at # "panicked"

\* C19: every request received gets its ClientId by fetch-and-increment of
\* the one counter: the ids are 0, 1, 2, ... in the order they are taken, no
\* two requests get the same id, and a recv called after another recv has
\* returned gets a greater id, also across gateways.
C19_ClientIdsFreshAndIncreasing ==
    /\ ID = Cardinality(Fetches)
    /\ \A i \in Fetches : recv_log[i].client = Cardinality({j \in Fetches : j < i})
    /\ \A i \in Fetches, j \in Fetches :
          i # j => recv_log[i].client # recv_log[j].client
    /\ \A i \in 1..Len(recv_log), j \in Fetches :
          (i < j /\ recv_log[i].ev = "return") =>
              recv_log[i].client < recv_log[j].client

\* Two gateways inside recv at once, the later id returned first.
C19_Witness ==
    /\ Len(recv_log) >= 4
    /\ recv_log[1].ev = "fetch"
    /\ recv_log[2].ev = "fetch"
    /\ recv_log[1].gw # recv_log[2].gw
    /\ recv_log[3] = [recv_log[2] EXCEPT !.ev = "return"]
    /\ recv_log[4] = [recv_log[1] EXCEPT !.ev = "return"]

\* The ClientIds recv has returned on gateway g, and those of them whose
\* send completed (a send that returns Ok has delivered into the channel).
ReturnedBy(g) == {e.client : e \in {r \in Returns : r.gw = g}}
CompletedSends(g) ==
    {e.client : e \in {r \in Returns : r.gw = g /\ channels[r.ch].sent >= 1}}

\* C24: the keys of pending_responses are the ClientIds returned by recv so
\* far minus those passed to a completed send; a recv that returns adds
\* exactly one entry and changes no other, a send that completes removes
\* exactly one entry and changes no other, and a step that completes no send
\* removes no entry.
C24_PendingIsReturnedMinusCompleted ==
    /\ [](\A g \in Gateways :
            DOMAIN pending_responses[g] = ReturnedBy(g) \ CompletedSends(g))
    /\ [][\A g \in Gateways :
            LET recv_returned == /\ gw_last' # gw_last
                                 /\ gw_last'.op = "recv"
                                 /\ gw_last'.outcome = "ok"
                                 /\ gw_last'.gw = g
                send_completed == /\ gw_last' # gw_last
                                  /\ gw_last'.op = "send"
                                  /\ gw_last'.outcome = "ok"
                                  /\ gw_last'.gw = g
            IN /\ recv_returned =>
                     /\ gw_last'.client \notin DOMAIN pending_responses[g]
                     /\ pending_responses'[g] =
                           MapPut(pending_responses[g], gw_last'.client, gw_last'.ch)
               /\ send_completed =>
                     /\ gw_last'.client \in DOMAIN pending_responses[g]
                     /\ pending_responses'[g] =
                           MapRemove(pending_responses[g], gw_last'.client)
               /\ ~send_completed =>
                     \A c \in DOMAIN pending_responses[g] :
                        /\ c \in DOMAIN pending_responses'[g]
                        /\ pending_responses'[g][c] = pending_responses[g][c]
         ]_vars

----------------------------------------------------------------------------
(* Claims about AllocationCriteria and TokenAssignment (checked under      *)
(* SpecAssignment).                                                        *)

\* 730 days, in seconds.
SevenHundredThirtyDays == 730 * 86400

\* C21: AllocationCriteria::new returns Ok with the three fields unchanged
\* exactly when max_age is at most 730 days (exactly 730 days included), and
\* the IncorrectMaxAge error for every larger max_age.
C21_NewAcceptsUpTo730Days ==
    asg_pc = "new" =>
        IF \/ max_age.secs < SevenHundredThirtyDays
           \/ (max_age.secs = SevenHundredThirtyDays /\ max_age.nanos = 0)
        THEN /\ criteria.ok
             /\ criteria.frequency = frequency
             /\ criteria.max_age = max_age
             /\ criteria.contract = contract
        ELSE /\ ~criteria.ok
             /\ criteria.err = "IncorrectMaxAge"

\* new on exactly 730 days.
C21_Witness ==
    /\ asg_pc = "new"
    /\ max_age = Duration(SevenHundredThirtyDays, 0)
    /\ criteria = OkCriteria(frequency, max_age, contract)
    /\ frequency = "Day365"

\* The i64 that eight bytes, least significant first, are the two's
\* complement of, for values of fewer than 32 bits.
RECURSIVE Weigh(_, _)
Weigh(bytes, n) ==
    IF n = 0 THEN 0 ELSE bytes[1] + 256 * Weigh(Tail(bytes), n - 1)

FromLeBytes(bytes) ==
    IF \A k \in 5..8 : bytes[k] = 0 THEN Weigh(bytes, 4)
    ELSE -1 - Weigh([k \in 1..4 |-> 255 - bytes[k]], 4)

\* The layout of the message of to_be_signed: 41 bytes, the tier's
\* discriminant, the epoch seconds as 8 little-endian bytes, the 32 bytes of
\* the assignee.
SignedMsgLayout ==
    /\ Len(signed_msg) = 41
    /\ signed_msg[1] = TierAsU8(assignment.tier)
    /\ \A k \in 6..9 : signed_msg[k] \in {0, 255}
    /\ \A k \in 2..9 : signed_msg[k] \in 0..255
    /\ signed_msg[9] = (IF signed_msg[5] >= 128 THEN 255 ELSE 0)
    /\ FromLeBytes(SubSeq(signed_msg, 2, 9)) = Timestamp(assignment.time_slot)
    /\ SubSeq(signed_msg, 10, 41) = assignment.assignee

\* The input of to_be_signed_test: Day90, 2021-07-28T00:00:00Z, [1; 32].
IsSignedTestInput ==
    /\ assignment.tier = "Day90"
    /\ assignment.time_slot = DateTime(2021, 7, 28, 0, 0, 0, 0)
    /\ assignment.assignee = [i \in 1..32 |-> 1]

\* C22 (as claimed): the message has the layout above, and for Day90 (12),
\* 2021-07-28T00:00:00Z (timestamp 1627430400) and assignee [1; 32] it is
\* 0x0C, then 0x80 0x51 0x01 0x61 0x00 0x00 0x00 0x00, then 32 bytes 0x01.
C22_SignedMsgLayoutAndExample ==
    asg_pc = "to_be_signed" =>
        /\ SignedMsgLayout
        /\ IsSignedTestInput =>
              /\ TierAsU8(assignment.tier) = 12
              /\ Timestamp(assignment.time_slot) = 1627430400
              /\ signed_msg = <<12, 128, 81, 1, 97, 0, 0, 0, 0>> \o [i \in 1..32 |-> 1]

\* C22 (amended): the same, with the bytes of 1627430400 = 0x61009E00:
\* 0x00 0x9E 0x00 0x61 0x00 0x00 0x00 0x00.
C22_SignedMsgLayoutAndExampleBytes ==
    asg_pc = "to_be_signed" =>
        /\ SignedMsgLayout
        /\ IsSignedTestInput =>
              /\ TierAsU8(assignment.tier) = 12
              /\ Timestamp(assignment.time_slot) = 1627430400
              /\ signed_msg = <<12, 0, 158, 0, 97, 0, 0, 0, 0>> \o [i \in 1..32 |-> 1]

C22_Witness ==
    /\ asg_pc = "to_be_signed"
    /\ IsSignedTestInput
    /\ Len(signed_msg) = 41

\* C25: for an assignment whose time_slot is a valid slot of its tier,
\* next_slot() and previous_slot() are valid slots of the tier too, also
\* when the step crosses a year boundary, and previous_slot of next_slot is
\* the time_slot it started from.
C25_SlotStepsStayValid ==
    /\ \A i \in 1..Len(slot_trace) :
          is_valid_slot(assignment.tier, slot_trace[i].from) =>
              is_valid_slot(assignment.tier, slot_trace[i].to)
    /\ \A i \in 1..(Len(slot_trace) - 1) :
          (/\ is_valid_slot(assignment.tier, slot_trace[i].from)
           /\ slot_trace[i].op = "next_slot"
           /\ slot_trace[i + 1].op = "previous_slot") =>
              slot_trace[i + 1].to = slot_trace[i].from

====
